---- MODULE Spec2Model ----
(***************************************************************************)
(* A model of the progress store (LearningProvider), the quiz engine       *)
(* (QuizModal) and the learning view (App / HookLearning / SettingsModal)  *)
(* of react-hooks-portal.                                                   *)
(*                                                                         *)
(* One action is one event handler together with the render and the        *)
(* effects React runs before the next event: a handler's setState calls,   *)
(* the re-render, the effect clean-ups and effects whose dependencies      *)
(* changed, and the re-render those cause.                                 *)
(***************************************************************************)
EXTENDS Integers, Sequences, FiniteSets, TLC

VARIABLES
    \* the browser
    phase,            \* "unloaded" | "running" | "crashed" (a loader threw)
    localStorage,     \* key -> [text, json]; a key outside the domain has no entry
    now,              \* the wall clock, in ticks of MsPerTick milliseconds
    \* LearningProvider
    progress,         \* hookId -> record
    settings,         \* the settings record
    \* App
    currentView,      \* "dashboard" | "learning"
    selectedHook,     \* a hook id, or ""
    showSettings,
    \* HookLearning
    showQuiz,
    showNotes,
    sessionStartTime, \* the time held by the state, NullTime for null
    cleanup,          \* what the clean-up of the session effect closed over
    \* QuizModal
    quizMounted,      \* whether HookLearning renders a QuizModal
    questions,        \* the questions prop: the correctAnswer of each question
    currentQuestion,
    selectedAnswers,  \* question index -> option index; no key where undefined
    showResults,
    quizCompleted,
    \* NotesPanel
    notes,
    hasUnsavedChanges,
    \* history
    lastCall,         \* the operation of the last step and its arguments
    written,          \* hookId -> the fields a consumer of the context gave
                      \* a value since the map was last loaded or reset,
                      \* each with the last value given
    onCompleteCalls   \* the scores handed to onComplete since the quiz
                      \* session began (mount or resetQuiz)

envVars == <<phase, localStorage, now>>
storeVars == <<progress, settings, written>>
appVars == <<currentView, selectedHook, showSettings>>
viewVars == <<showQuiz, showNotes, sessionStartTime, cleanup>>
quizVars == <<quizMounted, questions, currentQuestion, selectedAnswers,
              showResults, quizCompleted, onCompleteCalls>>
notesVars == <<notes, hasUnsavedChanges>>
uiVars == <<appVars, viewVars, quizVars, notesVars>>
vars == <<envVars, storeVars, uiVars, lastCall>>

----------------------------------------------------------------------------
(* Bounds of the model *)

\* the clock runs from 0 to MaxClock
MaxClock == 2
\* one tick of the clock, in milliseconds
MsPerTick == 500
\* the learner picks among the options 0..MaxOption of a question
MaxOption == 1
\* a QuizModal rendered on its own gets 1..MaxQuestions questions
MaxQuestions == 3

----------------------------------------------------------------------------
(* Values *)

\* the topics modelled, two of the sixteen ids of the catalog
Hooks == {"useState", "useEffect"}

\* the ids of the sixteen topics of the catalog, in the order of the list
Catalog ==
    <<"useState", "useEffect", "useContext", "useReducer", "useCallback",
      "useMemo", "useRef", "useImperativeHandle", "useLayoutEffect",
      "useDebugValue", "useId", "useDeferredValue", "useTransition",
      "useSyncExternalStore", "useInsertionEffect", "custom">>
CatalogIds == {Catalog[i] : i \in DOMAIN Catalog}
\* a hookId: string that is the id of no topic
OutsideId == "notInCatalog"

Themes == {"light", "dark", "auto"}
Difficulties == {"beginner", "intermediate", "advanced", "all"}

\* a Date object holding time t, and the ISO string JSON.stringify makes of it
MkDate(t) == <<"Date", t>>
IsoString(t) == <<"string", t>>

\* an object with no own keys: {}, and what spreading undefined contributes
EmptyObject == [k \in {} |-> TRUE]

ProgressKey == "learning-progress"
SettingsKey == "learning-settings"

\* text that JSON.parse rejects
CorruptEntry == [text |-> "corrupt", json |-> EmptyObject]
JsonEntry(v) == [text |-> "json", json |-> v]

----------------------------------------------------------------------------
(* JavaScript object operations *)

\* { ...a, ...b }
Spread(a, b) ==
    [k \in (DOMAIN a) \cup (DOMAIN b) |-> IF k \in DOMAIN b THEN b[k] ELSE a[k]]

\* obj[key] when it is spread: undefined contributes no keys
Lookup(obj, key) == IF key \in DOMAIN obj THEN obj[key] ELSE EmptyObject

\* Date.prototype.toJSON: a Date becomes its ISO string, a string stays
ToJSON(v) == IF v[1] = "Date" THEN IsoString(v[2]) ELSE v

\* JSON.stringify(progress): every record, with lastVisited as a string
StringifyProgress(p) ==
    [h \in DOMAIN p |->
        [f \in DOMAIN p[h] |->
            IF f = "lastVisited" THEN ToJSON(p[h][f]) ELSE p[h][f]]]

\* JSON.stringify(settings): strings and booleans only
StringifySettings(s) == s

getItem(ls, key) == IF key \in DOMAIN ls THEN ls[key] ELSE [text |-> "null", json |-> EmptyObject]
setItem(ls, key, v) == Spread(ls, [k \in {key} |-> JsonEntry(v)])
removeItem(ls, key) == [k \in (DOMAIN ls) \ {key} |-> ls[k]]

----------------------------------------------------------------------------
(* LearningProvider *)

DefaultSettings ==
    [theme |-> "light", difficulty |-> "all", showHints |-> TRUE,
     autoSave |-> TRUE, soundEnabled |-> FALSE]

\* the lazy initialisers of the two useState calls: saved ? JSON.parse(saved) : default
ParseThrows(ls, key) == getItem(ls, key).text = "corrupt"
LoadProgress(ls) ==
    IF getItem(ls, ProgressKey).text = "json" THEN getItem(ls, ProgressKey).json
    ELSE EmptyObject
\* mutant: the default record lacks the theme
LoadSettings_NoTheme(ls) ==
    IF getItem(ls, SettingsKey).text = "json" THEN getItem(ls, SettingsKey).json
    ELSE [difficulty |-> "all", showHints |-> TRUE, autoSave |-> TRUE,
          soundEnabled |-> FALSE]

LoadSettings(ls) ==
    IF getItem(ls, SettingsKey).text = "json" THEN getItem(ls, SettingsKey).json
    ELSE DefaultSettings
LoadThrows(ls) == ParseThrows(ls, ProgressKey) \/ ParseThrows(ls, SettingsKey)

\* the record literal of updateProgress before the two spreads
DefaultRecord(t) ==
    [completed |-> FALSE, timeSpent |-> 0, lastVisited |-> MkDate(t),
     notes |-> "", bookmarked |-> FALSE]

\* mutant: the record is rebuilt from the defaults and the update alone
updateProgress_DropsRecord(prev, hookId, updates, t) ==
    Spread(prev, [h \in {hookId} |-> Spread(DefaultRecord(t), updates)])

\* the updater updateProgress hands to setProgress
updateProgress(prev, hookId, updates, t) ==
    Spread(prev,
           [h \in {hookId} |->
               Spread(Spread(DefaultRecord(t), Lookup(prev, hookId)), updates)])

\* the updater updateSettings hands to setSettings
updateSettings(prev, updates) == Spread(prev, updates)

\* mutant: the progress map is written whatever autoSave says
ProgressEffect_Ungated(ls, p, s) == setItem(ls, ProgressKey, StringifyProgress(p))

\* useEffect(..., [progress, settings.autoSave])
ProgressEffect(ls, p, s) ==
    IF s.autoSave THEN setItem(ls, ProgressKey, StringifyProgress(p)) ELSE ls

\* mutant: the settings are written only while autoSave is on
SettingsEffect_Gated(ls, s) ==
    IF s.autoSave THEN setItem(ls, SettingsKey, StringifySettings(s)) ELSE ls

\* useEffect(..., [settings])
SettingsEffect(ls, s) == setItem(ls, SettingsKey, StringifySettings(s))

\* mutant: the progress effect depends on [progress] alone
RunEffects_ProgressDepOnly(ls, progressSet, settingsSet, p, s, oldS) ==
    LET ls1 == IF progressSet THEN ProgressEffect(ls, p, s) ELSE ls
    IN  IF settingsSet THEN SettingsEffect(ls1, s) ELSE ls1

\* The provider's effects after a render: each runs when one of its
\* dependencies changed.  progressSet / settingsSet say that the handler
\* called setProgress / setSettings, which always installs a new object.
RunEffects(ls, progressSet, settingsSet, p, s, oldS) ==
    LET ls1 == IF progressSet \/ s.autoSave # oldS.autoSave
               THEN ProgressEffect(ls, p, s) ELSE ls
    IN  IF settingsSet THEN SettingsEffect(ls1, s) ELSE ls1

Write(hookId, updates) == [hookId |-> hookId, updates |-> updates]

\* mutant: every call spreads the map its handler was rendered with, as
\* setProgress({...progress, ...}) would, and the last call's map is kept
ApplyWrites_FromSnapshot(p, writes, t) ==
    IF writes = <<>> THEN p
    ELSE updateProgress(p, writes[Len(writes)].hookId, writes[Len(writes)].updates, t)

\* A handler's updateProgress calls, in order: React applies the queued
\* updaters one after the other, each to the result of the one before.
RECURSIVE ApplyWrites(_, _, _)
ApplyWrites(p, writes, t) ==
    IF writes = <<>> THEN p
    ELSE ApplyWrites(updateProgress(p, Head(writes).hookId, Head(writes).updates, t),
                     Tail(writes), t)

\* history of the fields written: the same calls, without the defaults
RECURSIVE LogWrites(_, _)
LogWrites(w, writes) ==
    IF writes = <<>> THEN w
    ELSE LogWrites(
             Spread(w, [h \in {Head(writes).hookId} |->
                           Spread(Lookup(w, Head(writes).hookId), Head(writes).updates)]),
             Tail(writes))

NoArgs(op) == [op |-> op, hookId |-> "", updates |-> EmptyObject]

----------------------------------------------------------------------------
(* QuizModal *)

\* the correctAnswer of the questions of each shipped quiz, by hookId
Quizzes ==
    [useState        |-> <<1, 1, 1>>,
     useEffect       |-> <<2, 2, 1>>,
     useContext      |-> <<1, 1, 1>>,
     useReducer      |-> <<1, 1, 1>>,
     useCallback     |-> <<1, 2, 0>>,
     useMemo         |-> <<1, 1, 1>>,
     useRef          |-> <<1, 1, 1>>,
     useLayoutEffect |-> <<1, 1, 1>>,
     useTransition   |-> <<1, 2, 2>>,
     custom          |-> <<1, 2, 1>>]

\* quizzes.find(q => q.hookId === selectedHook)
HasQuiz(h) == h \in DOMAIN Quizzes
CurrentQuiz(h) == IF HasQuiz(h) THEN Quizzes[h] ELSE <<>>

Options == 0..MaxOption

\* every question of the shipped quizzes has four options
OptionsPerQuestion == 4
ShippedOptions == 0..(OptionsPerQuestion - 1)

\* Math.round(x) for x = (num / den) * 100 >= 0: the nearest integer, halves up
MathRoundPercent(num, den) == (200 * num + den) \div (2 * den)

\* mutant: the percentage is cut off instead of rounded
calculateScore_Truncates(qs, answers) ==
    (100 * Cardinality({i \in 1..Len(qs) :
                           (i - 1) \in DOMAIN answers /\ answers[i - 1] = qs[i]}))
        \div Len(qs)

\* calculateScore, for a list of at least one question
calculateScore(qs, answers) ==
    LET correct == Cardinality({i \in 1..Len(qs) :
                                   (i - 1) \in DOMAIN answers /\ answers[i - 1] = qs[i]})
    IN  MathRoundPercent(correct, Len(qs))

\* const currentQ = questions[currentQuestion]; the question view reads
\* currentQ.question, a TypeError when currentQ is undefined
QuestionViewThrows(qs, cq, results) == ~results /\ (cq + 1) \notin DOMAIN qs

\* the state of a QuizModal that has just mounted
QuizFresh ==
    /\ currentQuestion' = 0
    /\ selectedAnswers' = EmptyObject
    /\ showResults' = FALSE
    /\ quizCompleted' = FALSE
    /\ onCompleteCalls' = <<>>

QuizUnmounted ==
    /\ quizMounted' = FALSE
    /\ questions' = <<>>
    /\ QuizFresh

\* {currentQuiz && <QuizModal .../>} after a render with hook h selected: a
\* QuizModal that was rendered before keeps its state and gets new props
QuizRendered(h) ==
    IF h # "" /\ HasQuiz(h)
    THEN /\ quizMounted' = TRUE
         /\ questions' = CurrentQuiz(h)
         /\ IF quizMounted
            THEN UNCHANGED <<currentQuestion, selectedAnswers, showResults,
                             quizCompleted, onCompleteCalls>>
            ELSE QuizFresh
    ELSE QuizUnmounted

----------------------------------------------------------------------------
(* NotesPanel *)

NotesUnmounted ==
    /\ notes' = ""
    /\ hasUnsavedChanges' = FALSE

\* The effect on [hookId, progress] of a NotesPanel rendered for hook h with
\* the map p.  mounted: it was rendered before this step; ran: hookId or
\* progress changed in this step.
NotesRendered(h, p, mounted, ran) ==
    IF h = "" THEN NotesUnmounted
    ELSE IF (ran \/ ~mounted) /\ h \in DOMAIN p
         THEN /\ notes' = p[h].notes
              /\ hasUnsavedChanges' = FALSE
         ELSE IF mounted THEN UNCHANGED notesVars ELSE NotesUnmounted

----------------------------------------------------------------------------
(* HookLearning *)

\* useState<Date | null>(null)
NullTime == -1
MsPerSecond == 1000
\* score >= 70
PassThreshold == 70

NoCleanup == [hook |-> "", start |-> NullTime, timeSpent |-> 0]

ViewUnmounted ==
    /\ showQuiz' = FALSE
    /\ showNotes' = FALSE
    /\ sessionStartTime' = NullTime
    /\ cleanup' = NoCleanup

\* Math.floor((new Date().getTime() - sessionStartTime.getTime()) / 1000)
ElapsedSeconds(start, t) == ((t - start) * MsPerTick) \div MsPerSecond

\* What the session effect's clean-up closes over: selectedHook,
\* sessionStartTime and progress of the render that scheduled the effect.
Capture(h, start, p) ==
    [hook |-> h, start |-> start,
     timeSpent |-> IF h \in DOMAIN p THEN p[h].timeSpent ELSE 0]

\* mutant: the clean-up writes the seconds of this session alone
CleanupWrites_Overwrites(c, t) ==
    IF c.hook # "" /\ c.start # NullTime
    THEN <<Write(c.hook, [timeSpent |-> ElapsedSeconds(c.start, t)])>>
    ELSE <<>>

\* the clean-up of the session effect
CleanupWrites(c, t) ==
    IF c.hook # "" /\ c.start # NullTime
    THEN <<Write(c.hook, [timeSpent |-> c.timeSpent + ElapsedSeconds(c.start, t)])>>
    ELSE <<>>

\* the body of the session effect
EffectWrites(h, t) ==
    IF h # "" THEN <<Write(h, [lastVisited |-> MkDate(t)])>> ELSE <<>>

\* mutant: the pass mark is the one the result screen colours from
handleQuizComplete_PassesAt60(h, score) ==
    IF h # "" THEN <<Write(h, [completed |-> score >= 60])>> ELSE <<>>

\* mutant: two of three is a pass
handleQuizComplete_PassesTwoOfThree(h, score) ==
    IF h # "" THEN <<Write(h, [completed |-> score >= 67])>> ELSE <<>>

handleQuizComplete(h, score) ==
    IF h # "" THEN <<Write(h, [completed |-> score >= PassThreshold])>> ELSE <<>>

\* the current?.bookmarked || false of toggleBookmark
IsBookmarked(p, h) == IF h \in DOMAIN p THEN p[h].bookmarked ELSE FALSE
\* currentProgress?.completed
IsCompleted(p, h) == IF h \in DOMAIN p THEN p[h].completed ELSE FALSE

\* a modal covers the page: the settings, the quiz or the notes panel
Overlay == showSettings \/ showQuiz \/ showNotes

\* The provider's part of a step that calls updateProgress for each of
\* writes, in order, and touches neither the settings nor the clock.
StoreWrites(writes) ==
    /\ progress' = ApplyWrites(progress, writes, now)
    /\ written' = written
    /\ localStorage' =
           RunEffects(localStorage, writes # <<>>, FALSE, progress', settings, settings)
    /\ UNCHANGED <<phase, settings, now>>

\* Dashboard: handleStartLearning(hookId), hookId possibly undefined ("")
handleStartLearning(h) ==
    /\ phase = "running" /\ currentView = "dashboard" /\ ~Overlay
    /\ currentView' = "learning"
    /\ selectedHook' = IF h # "" THEN h ELSE selectedHook
    /\ showSettings' = FALSE
    /\ showQuiz' = FALSE
    /\ showNotes' = FALSE
    /\ sessionStartTime' = IF selectedHook' # "" THEN now ELSE NullTime
    /\ cleanup' = Capture(selectedHook', NullTime, progress)
    /\ StoreWrites(EffectWrites(selectedHook', now))
    /\ QuizRendered(selectedHook')
    /\ NotesRendered(selectedHook', progress', FALSE, TRUE)
    /\ lastCall' = [op |-> "handleStartLearning", hookId |-> h, updates |-> EmptyObject]

\* the sidebar and the previous / next buttons: onHookSelect(h)
onHookSelect(h) ==
    /\ phase = "running" /\ currentView = "learning" /\ ~Overlay
    /\ h # selectedHook
    /\ selectedHook' = h
    /\ sessionStartTime' = now
    /\ cleanup' = Capture(h, sessionStartTime, progress)
    /\ StoreWrites(CleanupWrites(cleanup, now) \o EffectWrites(h, now))
    /\ QuizRendered(h)
    /\ NotesRendered(h, progress', selectedHook # "", TRUE)
    /\ lastCall' = [op |-> "onHookSelect", hookId |-> h, updates |-> EmptyObject]
    /\ UNCHANGED <<currentView, showSettings, showQuiz, showNotes>>

handleBackToDashboard ==
    /\ phase = "running" /\ currentView = "learning" /\ ~Overlay
    /\ currentView' = "dashboard"
    /\ selectedHook' = ""
    /\ ViewUnmounted
    /\ QuizUnmounted
    /\ NotesUnmounted
    /\ StoreWrites(CleanupWrites(cleanup, now))
    /\ lastCall' = [op |-> "handleBackToDashboard", hookId |-> selectedHook,
                    updates |-> EmptyObject]
    /\ UNCHANGED showSettings

\* A handler of the learning view that only calls updateProgress for the
\* selected hook: the session effect does not run again.
ViewWrites(op, writes) ==
    /\ StoreWrites(writes)
    /\ NotesRendered(selectedHook, progress', TRUE, writes # <<>>)
    /\ lastCall' = [op |-> op, hookId |-> selectedHook,
                    updates |-> IF writes = <<>> THEN EmptyObject
                                ELSE writes[1].updates]
    /\ UNCHANGED <<appVars, sessionStartTime, cleanup>>

\* mutant: the button sets the bookmark, never clears it
toggleBookmark_AlwaysOn ==
    /\ phase = "running" /\ currentView = "learning" /\ ~Overlay
    /\ selectedHook # ""
    /\ ViewWrites("toggleBookmark", <<Write(selectedHook, [bookmarked |-> TRUE])>>)
    /\ UNCHANGED <<showQuiz, showNotes, quizVars>>

toggleBookmark ==
    /\ phase = "running" /\ currentView = "learning" /\ ~Overlay
    /\ selectedHook # ""
    /\ ViewWrites("toggleBookmark",
           <<Write(selectedHook, [bookmarked |-> ~IsBookmarked(progress, selectedHook)])>>)
    /\ UNCHANGED <<showQuiz, showNotes, quizVars>>

\* the button is rendered while the topic is not completed
markAsCompleted ==
    /\ phase = "running" /\ currentView = "learning" /\ ~Overlay
    /\ selectedHook # ""
    /\ ~IsCompleted(progress, selectedHook)
    /\ ViewWrites("markAsCompleted", <<Write(selectedHook, [completed |-> TRUE])>>)
    /\ UNCHANGED <<showQuiz, showNotes, quizVars>>

\* the Notes button of the learning view
OpenNotes ==
    /\ phase = "running" /\ currentView = "learning" /\ ~Overlay
    /\ selectedHook # ""
    /\ showNotes' = TRUE
    /\ lastCall' = NoArgs("setShowNotes")
    /\ UNCHANGED <<envVars, storeVars, appVars, showQuiz, sessionStartTime, cleanup,
                   quizVars, notesVars>>

\* onClose of the NotesPanel
CloseNotes ==
    /\ phase = "running" /\ showNotes
    /\ showNotes' = FALSE
    /\ lastCall' = NoArgs("onNotesClose")
    /\ UNCHANGED <<envVars, storeVars, appVars, showQuiz, sessionStartTime, cleanup,
                   quizVars, notesVars>>

\* NotesPanel: typing into the text area
handleNotesChange(text) ==
    /\ phase = "running" /\ showNotes
    /\ notes' = text
    /\ hasUnsavedChanges' = TRUE
    /\ lastCall' = [op |-> "handleNotesChange", hookId |-> selectedHook,
                    updates |-> [notes |-> text]]
    /\ UNCHANGED <<envVars, storeVars, appVars, viewVars, quizVars>>

\* NotesPanel: the Save button and Ctrl+S
saveNotes ==
    /\ phase = "running" /\ showNotes
    /\ ViewWrites("saveNotes", <<Write(selectedHook, [notes |-> notes])>>)
    /\ UNCHANGED <<showQuiz, showNotes, quizVars>>

\* The Take Quiz button.  The modal renders its question view; a TypeError
\* thrown while rendering takes the whole tree down.
OpenQuiz ==
    /\ phase = "running" /\ currentView = "learning" /\ ~Overlay
    /\ quizMounted
    /\ showQuiz' = TRUE
    /\ phase' = IF QuestionViewThrows(questions, currentQuestion, showResults)
                THEN "crashed" ELSE phase
    /\ lastCall' = NoArgs("setShowQuiz")
    /\ UNCHANGED <<localStorage, now, storeVars, appVars, showNotes,
                   sessionStartTime, cleanup, quizVars, notesVars>>

\* onClose of the QuizModal
CloseQuiz ==
    /\ phase = "running" /\ quizMounted /\ showQuiz
    /\ showQuiz' = FALSE
    /\ lastCall' = NoArgs("onClose")
    /\ UNCHANGED <<envVars, storeVars, appVars, showNotes, sessionStartTime, cleanup,
                   quizVars, notesVars>>

\* a handler of the open QuizModal that touches QuizModal state only
QuizOnly == UNCHANGED <<envVars, storeVars, appVars, viewVars, notesVars,
                        quizMounted, questions>>

\* mutant: a question that has a selection keeps it
handleAnswerSelect_KeepsFirst(answerIndex) ==
    /\ phase = "running" /\ quizMounted /\ showQuiz /\ ~showResults
    /\ selectedAnswers' =
           Spread([i \in {currentQuestion} |-> answerIndex], selectedAnswers)
    /\ lastCall' = [op |-> "handleAnswerSelect", hookId |-> selectedHook,
                    updates |-> [answerIndex |-> answerIndex]]
    /\ QuizOnly
    /\ UNCHANGED <<currentQuestion, showResults, quizCompleted, onCompleteCalls>>

\* an option button of the question view: newAnswers[currentQuestion] = answerIndex
handleAnswerSelect(answerIndex) ==
    /\ phase = "running" /\ quizMounted /\ showQuiz /\ ~showResults
    /\ selectedAnswers' =
           Spread(selectedAnswers, [i \in {currentQuestion} |-> answerIndex])
    /\ lastCall' = [op |-> "handleAnswerSelect", hookId |-> selectedHook,
                    updates |-> [answerIndex |-> answerIndex]]
    /\ QuizOnly
    /\ UNCHANGED <<currentQuestion, showResults, quizCompleted, onCompleteCalls>>

\* mutant: every press of Next / Finish hands a score to onComplete
nextQuestion_ReportsEveryPress ==
    /\ phase = "running" /\ quizMounted /\ showQuiz /\ ~showResults
    /\ currentQuestion \in DOMAIN selectedAnswers
    /\ lastCall' = [op |-> "nextQuestion", hookId |-> selectedHook,
                    updates |-> EmptyObject]
    /\ LET score == calculateScore(questions, selectedAnswers)
           last == ~(currentQuestion < Len(questions) - 1) IN
       /\ currentQuestion' = IF last THEN currentQuestion ELSE currentQuestion + 1
       /\ showResults' = last
       /\ quizCompleted' = last
       /\ onCompleteCalls' = Append(onCompleteCalls, score)
       /\ StoreWrites(handleQuizComplete(selectedHook, score))
       /\ NotesRendered(selectedHook, progress', TRUE, selectedHook # "")
       /\ UNCHANGED <<appVars, viewVars, quizMounted, questions, selectedAnswers>>

\* mutant: the button is never disabled
nextQuestion_NeverDisabled ==
    /\ phase = "running" /\ quizMounted /\ showQuiz /\ ~showResults
    /\ lastCall' = [op |-> "nextQuestion", hookId |-> selectedHook,
                    updates |-> EmptyObject]
    /\ IF currentQuestion < Len(questions) - 1
       THEN /\ currentQuestion' = currentQuestion + 1
            /\ QuizOnly
            /\ UNCHANGED <<selectedAnswers, showResults, quizCompleted, onCompleteCalls>>
       ELSE LET score == calculateScore(questions, selectedAnswers) IN
            /\ showResults' = TRUE
            /\ quizCompleted' = TRUE
            /\ onCompleteCalls' = Append(onCompleteCalls, score)
            /\ StoreWrites(handleQuizComplete(selectedHook, score))
            /\ NotesRendered(selectedHook, progress', TRUE, selectedHook # "")
            /\ UNCHANGED <<appVars, viewVars, quizMounted, questions,
                           currentQuestion, selectedAnswers>>

\* The Next / Finish button, disabled while the current question has no
\* selection.  onComplete is HookLearning's handleQuizComplete.
nextQuestion ==
    /\ phase = "running" /\ quizMounted /\ showQuiz /\ ~showResults
    /\ currentQuestion \in DOMAIN selectedAnswers
    /\ lastCall' = [op |-> "nextQuestion", hookId |-> selectedHook,
                    updates |-> EmptyObject]
    /\ IF currentQuestion < Len(questions) - 1
       THEN /\ currentQuestion' = currentQuestion + 1
            /\ QuizOnly
            /\ UNCHANGED <<selectedAnswers, showResults, quizCompleted, onCompleteCalls>>
       ELSE LET score == calculateScore(questions, selectedAnswers) IN
            /\ showResults' = TRUE
            /\ quizCompleted' = TRUE
            /\ onCompleteCalls' = Append(onCompleteCalls, score)
            /\ StoreWrites(handleQuizComplete(selectedHook, score))
            /\ NotesRendered(selectedHook, progress', TRUE, selectedHook # "")
            /\ UNCHANGED <<appVars, viewVars, quizMounted, questions,
                           currentQuestion, selectedAnswers>>

\* mutant: the index goes down whatever it is
previousQuestionIndex_Unguarded(cq) == cq - 1

\* if (currentQuestion > 0) setCurrentQuestion(currentQuestion - 1)
previousQuestionIndex(cq) == IF cq > 0 THEN cq - 1 ELSE cq

\* mutant: going back drops the selection of the question left
previousQuestion_DropsSelection ==
    /\ phase = "running" /\ quizMounted /\ showQuiz /\ ~showResults
    /\ currentQuestion # 0
    /\ currentQuestion' = previousQuestionIndex(currentQuestion)
    /\ selectedAnswers' =
           [i \in (DOMAIN selectedAnswers) \ {currentQuestion} |-> selectedAnswers[i]]
    /\ lastCall' = NoArgs("previousQuestion")
    /\ QuizOnly
    /\ UNCHANGED <<showResults, quizCompleted, onCompleteCalls>>

\* the Previous button, disabled at the first question
previousQuestion ==
    /\ phase = "running" /\ quizMounted /\ showQuiz /\ ~showResults
    /\ currentQuestion # 0
    /\ currentQuestion' = previousQuestionIndex(currentQuestion)
    /\ lastCall' = NoArgs("previousQuestion")
    /\ QuizOnly
    /\ UNCHANGED <<selectedAnswers, showResults, quizCompleted, onCompleteCalls>>

\* mutant: the retake starts over with the selections still held
resetQuiz_KeepsSelections ==
    /\ phase = "running" /\ quizMounted /\ showQuiz /\ showResults
    /\ currentQuestion' = 0
    /\ selectedAnswers' = selectedAnswers
    /\ showResults' = FALSE
    /\ quizCompleted' = FALSE
    /\ onCompleteCalls' = <<>>
    /\ lastCall' = NoArgs("resetQuiz")
    /\ QuizOnly

\* Retake Quiz, on the result screen
resetQuiz ==
    /\ phase = "running" /\ quizMounted /\ showQuiz /\ showResults
    /\ currentQuestion' = 0
    /\ selectedAnswers' = EmptyObject
    /\ showResults' = FALSE
    /\ quizCompleted' = FALSE
    /\ onCompleteCalls' = <<>>
    /\ lastCall' = NoArgs("resetQuiz")
    /\ QuizOnly

----------------------------------------------------------------------------
(* SettingsModal *)

OpenSettings ==
    /\ phase = "running" /\ ~Overlay
    /\ showSettings' = TRUE
    /\ lastCall' = NoArgs("onSettingsOpen")
    /\ UNCHANGED <<envVars, storeVars, currentView, selectedHook, viewVars,
                   quizVars, notesVars>>

CloseSettings ==
    /\ phase = "running" /\ showSettings
    /\ showSettings' = FALSE
    /\ lastCall' = NoArgs("onSettingsClose")
    /\ UNCHANGED <<envVars, storeVars, currentView, selectedHook, viewVars,
                   quizVars, notesVars>>

\* a control of the settings panel: updateSettings(updates)
ChangeSetting(updates) ==
    /\ phase = "running" /\ showSettings
    /\ settings' = updateSettings(settings, updates)
    /\ localStorage' = RunEffects(localStorage, FALSE, TRUE, progress, settings', settings)
    /\ lastCall' = [op |-> "updateSettings", hookId |-> "", updates |-> updates]
    /\ UNCHANGED <<phase, now, progress, written, uiVars>>

\* handleResetProgress, the learner confirming: resetProgress(), then the
\* effects of the provider and of a mounted NotesPanel
handleResetProgress ==
    /\ phase = "running" /\ showSettings
    /\ progress' = EmptyObject
    /\ written' = EmptyObject
    /\ localStorage' =
           RunEffects(removeItem(localStorage, ProgressKey),
                      TRUE, FALSE, progress', settings, settings)
    /\ NotesRendered(selectedHook, progress', TRUE, TRUE)
    /\ lastCall' = NoArgs("resetProgress")
    /\ UNCHANGED <<phase, now, settings, appVars, viewVars, quizVars>>

\* the wall clock advances
Tick ==
    /\ now < MaxClock
    /\ now' = now + 1
    /\ lastCall' = NoArgs("tick")
    /\ UNCHANGED <<phase, localStorage, storeVars, uiVars>>

----------------------------------------------------------------------------
(* Start of the page *)

\* App, with nothing of the learning view mounted
FreshPage ==
    /\ currentView' = "dashboard"
    /\ selectedHook' = ""
    /\ showSettings' = FALSE
    /\ ViewUnmounted
    /\ QuizUnmounted
    /\ NotesUnmounted

\* Mounting LearningProvider: both initialisers, then both effects.
Boot(op) ==
    /\ lastCall' = NoArgs(op)
    /\ now' = now
    /\ FreshPage
    /\ IF LoadThrows(localStorage)
       THEN /\ phase' = "crashed"
            /\ progress' = EmptyObject
            /\ settings' = DefaultSettings
            /\ localStorage' = localStorage
       ELSE /\ phase' = "running"
            /\ progress' = LoadProgress(localStorage)
            /\ settings' = LoadSettings(localStorage)
            /\ localStorage' =
                   SettingsEffect(
                       ProgressEffect(localStorage, progress', settings'),
                       settings')
    /\ written' = progress'

Startup == phase = "unloaded" /\ Boot("startup")

\* the user reloads the page: all React state is dropped, storage stays
Reload == phase # "unloaded" /\ Boot("reload")

\* const totalHooks = 16
totalHooks == 16

\* mutant: the percentage is cut off instead of rounded
getCompletionPercentage_Truncates(p) ==
    (100 * Cardinality({h \in DOMAIN p : p[h].completed})) \div totalHooks

\* Math.round((completedHooks / totalHooks) * 100), over all records of the map
getCompletionPercentage(p) ==
    LET completedHooks == Cardinality({h \in DOMAIN p : p[h].completed})
    IN  MathRoundPercent(completedHooks, totalHooks)

\* Object.values(progress).reduce((total, p) => total + p.timeSpent, 0)
RECURSIVE ReduceTimeSpent(_, _)
ReduceTimeSpent(p, ids) ==
    IF ids = {} THEN 0
    ELSE LET h == CHOOSE x \in ids : TRUE
         IN  p[h].timeSpent + ReduceTimeSpent(p, ids \ {h})

getTotalTimeSpent(p) == ReduceTimeSpent(p, DOMAIN p)

----------------------------------------------------------------------------
(* The store's operations, as a consumer of the context calls them *)

ProgressUpdates ==
    {[completed |-> b] : b \in BOOLEAN} \cup
    {[notes |-> "n"], [lastVisited |-> MkDate(now)]}

SettingsUpdates ==
    {[theme |-> t] : t \in Themes} \cup
    {[autoSave |-> ~settings.autoSave]}

CallUpdateProgress(hookId, updates) ==
    /\ phase = "running"
    /\ progress' = ApplyWrites(progress, <<Write(hookId, updates)>>, now)
    /\ written' = LogWrites(written, <<Write(hookId, updates)>>)
    /\ localStorage' = RunEffects(localStorage, TRUE, FALSE, progress', settings, settings)
    /\ lastCall' = [op |-> "updateProgress", hookId |-> hookId, updates |-> updates]
    /\ UNCHANGED <<phase, settings, now, uiVars>>

CallUpdateSettings(updates) ==
    /\ phase = "running"
    /\ settings' = updateSettings(settings, updates)
    /\ localStorage' = RunEffects(localStorage, FALSE, TRUE, progress, settings', settings)
    /\ lastCall' = [op |-> "updateSettings", hookId |-> "", updates |-> updates]
    /\ UNCHANGED <<phase, progress, now, written, uiVars>>

\* a consumer calling updateProgress twice in one event handler
CallUpdateProgressTwice(hookId, updates, hookId2, updates2) ==
    /\ phase = "running"
    /\ progress' = ApplyWrites(progress,
                       <<Write(hookId, updates), Write(hookId2, updates2)>>, now)
    /\ written' = LogWrites(written,
                       <<Write(hookId, updates), Write(hookId2, updates2)>>)
    /\ localStorage' = RunEffects(localStorage, TRUE, FALSE, progress', settings, settings)
    /\ lastCall' = [op |-> "updateProgressTwice", hookId |-> hookId,
                    updates |-> updates, second |-> Write(hookId2, updates2)]
    /\ UNCHANGED <<phase, settings, now, uiVars>>

\* mutant: the records of completed topics survive the reset
CallResetProgress_KeepsCompleted ==
    /\ phase = "running"
    /\ progress' = [h \in {x \in DOMAIN progress : progress[x].completed} |-> progress[h]]
    /\ localStorage' =
           RunEffects(removeItem(localStorage, ProgressKey),
                      TRUE, FALSE, progress', settings, settings)
    /\ lastCall' = NoArgs("resetProgress")
    /\ written' = EmptyObject
    /\ UNCHANGED <<phase, settings, now, uiVars>>

\* mutant: the reset puts the settings back to their defaults as well
CallResetProgress_ResetsSettings ==
    /\ phase = "running"
    /\ progress' = EmptyObject
    /\ settings' = DefaultSettings
    /\ localStorage' =
           RunEffects(removeItem(localStorage, ProgressKey),
                      TRUE, TRUE, progress', settings', settings)
    /\ lastCall' = NoArgs("resetProgress")
    /\ written' = EmptyObject
    /\ UNCHANGED <<phase, now, uiVars>>

\* resetProgress: setProgress({}) and removeItem in the handler, then the effects
CallResetProgress ==
    /\ phase = "running"
    /\ progress' = EmptyObject
    /\ localStorage' =
           RunEffects(removeItem(localStorage, ProgressKey),
                      TRUE, FALSE, progress', settings, settings)
    /\ lastCall' = NoArgs("resetProgress")
    /\ written' = EmptyObject
    /\ UNCHANGED <<phase, settings, now, uiVars>>

----------------------------------------------------------------------------
(* Specifications *)

EmptyStorage == [k \in {} |-> CorruptEntry]

InitialStorages ==
    {EmptyStorage,
     [k \in {ProgressKey} |-> CorruptEntry],
     [k \in {SettingsKey} |-> CorruptEntry]}

\* the page before LearningProvider mounts, over one of the given storages
PageNotLoaded(storages) ==
    /\ phase = "unloaded"
    /\ localStorage \in storages
    /\ progress = EmptyObject
    /\ settings = DefaultSettings
    /\ now = 0
    /\ lastCall = NoArgs("none")
    /\ written = EmptyObject
    /\ currentView = "dashboard"
    /\ selectedHook = ""
    /\ showSettings = FALSE
    /\ showQuiz = FALSE
    /\ showNotes = FALSE
    /\ sessionStartTime = NullTime
    /\ cleanup = NoCleanup
    /\ quizMounted = FALSE
    /\ questions = <<>>
    /\ currentQuestion = 0
    /\ selectedAnswers = EmptyObject
    /\ showResults = FALSE
    /\ quizCompleted = FALSE
    /\ onCompleteCalls = <<>>
    /\ notes = ""
    /\ hasUnsavedChanges = FALSE

Init == PageNotLoaded(InitialStorages)

NextStore ==
    \/ Startup
    \/ Reload
    \/ \E h \in Hooks, u \in ProgressUpdates : CallUpdateProgress(h, u)
    \/ \E u \in SettingsUpdates : CallUpdateSettings(u)
    \/ CallResetProgress

SpecStore == Init /\ [][NextStore]_vars

\* The learner in the application, acting within one tick of the clock:
\* topics, completion, quizzes and the reset of the settings panel.
Next ==
    \/ Startup
    \/ \E h \in Hooks \cup {""} : handleStartLearning(h)
    \/ \E h \in Hooks : onHookSelect(h)
    \/ handleBackToDashboard
    \/ markAsCompleted
    \/ OpenQuiz
    \/ CloseQuiz
    \/ \E a \in Options : handleAnswerSelect(a)
    \/ nextQuestion
    \/ previousQuestion
    \/ resetQuiz
    \/ OpenSettings
    \/ CloseSettings
    \/ handleResetProgress

Spec == Init /\ [][Next]_vars

\* The learner in the application while the clock runs: topics opened and
\* closed, bookmarks, completion, the notes saved as they were loaded, a
\* quiz answered with its second option throughout, the theme, and the reset.
InitSession == PageNotLoaded({EmptyStorage})

NextSession ==
    \/ Startup
    \/ Tick
    \/ \E h \in Hooks \cup {""} : handleStartLearning(h)
    \/ \E h \in Hooks : onHookSelect(h)
    \/ handleBackToDashboard
    \/ toggleBookmark
    \/ markAsCompleted
    \/ OpenNotes
    \/ saveNotes
    \/ CloseNotes
    \/ OpenQuiz
    \/ handleAnswerSelect(1)
    \/ nextQuestion
    \/ CloseQuiz
    \/ OpenSettings
    \/ ChangeSetting([theme |-> "dark"])
    \/ handleResetProgress
    \/ CloseSettings

SpecSession == InitSession /\ [][NextSession]_vars

\* Two updateProgress calls in one event: the learner opening, switching and
\* leaving topics while the clock runs, and a consumer of the context that
\* calls twice in a row.
BatchUpdates == {[completed |-> TRUE], [completed |-> FALSE], [notes |-> "n"]}

NextBatch ==
    \/ Startup
    \/ Tick
    \/ \E h \in Hooks : handleStartLearning(h)
    \/ \E h \in Hooks : onHookSelect(h)
    \/ handleBackToDashboard
    \/ \E h \in Hooks, u \in BatchUpdates, h2 \in Hooks, u2 \in BatchUpdates :
           CallUpdateProgressTwice(h, u, h2, u2)

SpecBatch == InitSession /\ [][NextBatch]_vars

\* The learner opening one topic that has a quiz and taking its quiz, any
\* of the four options of a question selected, as often as they like.
InitShipped == PageNotLoaded({EmptyStorage})

NextShipped ==
    \/ Startup
    \/ \E h \in DOMAIN Quizzes : handleStartLearning(h)
    \/ OpenQuiz
    \/ \E a \in ShippedOptions : handleAnswerSelect(a)
    \/ nextQuestion
    \/ previousQuestion
    \/ resetQuiz
    \/ CloseQuiz

SpecShipped == InitShipped /\ [][NextShipped]_vars

\* A QuizModal rendered on its own, open, for a list of questions; no topic
\* is selected, so a reported score changes no progress record.
QuestionLists ==
    UNION {[1..n -> Options] : n \in 1..MaxQuestions}

QuizModalAlone(isOpen, lists) ==
    /\ phase = "running"
    /\ localStorage = EmptyStorage
    /\ progress = EmptyObject
    /\ settings = DefaultSettings
    /\ now = 0
    /\ lastCall = NoArgs("none")
    /\ written = EmptyObject
    /\ currentView = "learning"
    /\ selectedHook = ""
    /\ showSettings = FALSE
    /\ showQuiz = isOpen
    /\ showNotes = FALSE
    /\ sessionStartTime = NullTime
    /\ cleanup = NoCleanup
    /\ quizMounted = TRUE
    /\ questions \in lists
    /\ currentQuestion = 0
    /\ selectedAnswers = EmptyObject
    /\ showResults = FALSE
    /\ quizCompleted = FALSE
    /\ onCompleteCalls = <<>>
    /\ notes = ""
    /\ hasUnsavedChanges = FALSE

InitQuiz == QuizModalAlone(TRUE, QuestionLists)

NextQuiz ==
    \/ \E a \in Options : handleAnswerSelect(a)
    \/ nextQuestion
    \/ previousQuestion
    \/ resetQuiz
    \/ CloseQuiz
    \/ OpenQuiz

SpecQuiz == InitQuiz /\ [][NextQuiz]_vars

\* The same QuizModal, mounted closed, for a list that may have no question.
InitQuizEdge == QuizModalAlone(FALSE, QuestionLists \cup {<<>>})

SpecQuizEdge == InitQuizEdge /\ [][NextQuiz]_vars

\* The store in the hands of a consumer that completes topics: the first two
\* topics and an id outside the catalog get any update, the other topics are
\* completed one after the other in the order of the catalog.
AutoSaveOffStorage ==
    [k \in {SettingsKey} |-> JsonEntry([DefaultSettings EXCEPT !.autoSave = FALSE])]

InitCatalog == PageNotLoaded({EmptyStorage, AutoSaveOffStorage})

CatalogUpdates == {[completed |-> TRUE], [completed |-> FALSE], [timeSpent |-> 1]}

CompleteNextTopic ==
    \E i \in DOMAIN Catalog :
        /\ Catalog[i] \notin Hooks
        /\ ~IsCompleted(progress, Catalog[i])
        /\ \A j \in 1..(i - 1) :
               Catalog[j] \in Hooks \/ IsCompleted(progress, Catalog[j])
        /\ CallUpdateProgress(Catalog[i], [completed |-> TRUE])

NextCatalog ==
    \/ Startup
    \/ \E h \in Hooks \cup {OutsideId}, u \in CatalogUpdates : CallUpdateProgress(h, u)
    \/ CompleteNextTopic
    \/ CallResetProgress

SpecCatalog == InitCatalog /\ [][NextCatalog]_vars

----------------------------------------------------------------------------
(* Claims about the progress store *)

ClaimedDefaults ==
    [completed |-> FALSE, timeSpent |-> 0, notes |-> "", bookmarked |-> FALSE]

\* C1: with no resetProgress in between, a topic's record holds, field by
\* field, the last value written for every field some updateProgress call
\* included and the default for every field none included; a first update
\* of an unknown topic creates the record.
C1_MergeInvariant ==
    phase = "running" =>
        \A h \in DOMAIN written :
            /\ h \in DOMAIN progress
            /\ DOMAIN progress[h] =
                   (DOMAIN ClaimedDefaults) \cup {"lastVisited"}
            /\ \A f \in DOMAIN written[h] : progress[h][f] = written[h][f]
            /\ \A f \in (DOMAIN ClaimedDefaults) \ (DOMAIN written[h]) :
                   progress[h][f] = ClaimedDefaults[f]

\* a record made by two updates of different fields, one of them overwritten
C1_Witness ==
    /\ phase = "running"
    /\ lastCall.op = "updateProgress"
    /\ lastCall.hookId = "useState"
    /\ lastCall.updates = [completed |-> FALSE]
    /\ "useState" \in DOMAIN written
    /\ DOMAIN written["useState"] = {"completed", "notes"}
    /\ progress["useState"].notes = "n"
    /\ "useEffect" \in DOMAIN progress

StoredProgress(ls) == getItem(ls, ProgressKey)
StoredSettings(ls) == getItem(ls, SettingsKey)

\* C2: an updateProgress made while autoSave is on leaves the persisted
\* progress entry equal to the serialized in-memory map; one made while
\* autoSave is off leaves the persisted progress entry as it was.
C2_AutoSaveGate ==
    [][lastCall'.op = "updateProgress" =>
          IF settings.autoSave
          THEN StoredProgress(localStorage') = JsonEntry(StringifyProgress(progress'))
          ELSE StoredProgress(localStorage') = StoredProgress(localStorage)]_vars

\* an update made with autoSave off, after which storage and memory differ
C2_Witness ==
    /\ lastCall.op = "updateProgress"
    /\ ~settings.autoSave
    /\ StoredProgress(localStorage).text = "json"
    /\ StoredProgress(localStorage).json # EmptyObject
    /\ StoredProgress(localStorage).json # StringifyProgress(progress)

\* C3: after every updateSettings the in-memory settings are the previous
\* record with exactly the fields of the update overwritten, and the
\* persisted settings entry equals them, whatever autoSave was or becomes.
C3_SettingsAlwaysPersisted ==
    [][lastCall'.op = "updateSettings" =>
          /\ DOMAIN settings' = DOMAIN settings
          /\ \A f \in DOMAIN settings :
                 settings'[f] = IF f \in DOMAIN lastCall'.updates
                                THEN lastCall'.updates[f] ELSE settings[f]
          /\ StoredSettings(localStorage') = JsonEntry(settings')]_vars

\* the call that switches autoSave off has just been persisted, with
\* progress in memory that storage does not hold
C3_Witness ==
    /\ lastCall.op = "updateSettings"
    /\ lastCall.updates = [autoSave |-> FALSE]
    /\ settings.theme = "dark"
    /\ StoredSettings(localStorage) = JsonEntry(settings)
    /\ progress # EmptyObject

\* C4: after resetProgress and the effects it triggers, the in-memory map
\* is empty and storage holds no progress entry, with autoSave on or off.
C4_ResetRemovesEntry ==
    lastCall.op = "resetProgress" =>
        /\ progress = EmptyObject
        /\ ProgressKey \notin DOMAIN localStorage

\* C5: a start that finds a progress or settings entry absent or
\* unparseable completes without an error, with the empty map and/or the
\* default settings.
C5_StartupRecovers ==
    [][lastCall'.op \in {"startup", "reload"} =>
          /\ phase' = "running"
          /\ StoredProgress(localStorage).text # "json" => progress' = EmptyObject
          /\ StoredSettings(localStorage).text # "json" => settings' = DefaultSettings]_vars

\* C6: with autoSave on, a reload yields the progress map and the settings
\* held just before it.
C6_ReloadRoundTrip ==
    [][(lastCall'.op = "reload" /\ phase = "running" /\ settings.autoSave) =>
          /\ progress' = progress
          /\ settings' = settings]_vars

----------------------------------------------------------------------------
(* Claims about the quiz engine and the completion of topics *)

\* the number of the first n questions whose selection is the correct option
RECURSIVE CorrectAmong(_, _, _)
CorrectAmong(qs, answers, n) ==
    IF n = 0 THEN 0
    ELSE CorrectAmong(qs, answers, n - 1) +
         (IF (n - 1) \in DOMAIN answers
          THEN (IF answers[n - 1] = qs[n] THEN 1 ELSE 0)
          ELSE 0)

\* s is 100 * c / n rounded to the nearest integer, halves up
IsRoundedPercent(s, c, n) ==
    /\ 2 * n * s <= 200 * c + n
    /\ 200 * c + n < 2 * n * (s + 1)

C8_AdvanceReportsOnce ==
    [][LET atLast == ~(currentQuestion < Len(questions) - 1)
           n == Len(questions)
       IN  /\ (lastCall'.op = "nextQuestion" /\ ~atLast) =>
                  /\ currentQuestion' = currentQuestion + 1
                  /\ ~showResults'
                  /\ onCompleteCalls' = onCompleteCalls
           /\ (lastCall'.op = "nextQuestion" /\ atLast) =>
                  /\ currentQuestion' = currentQuestion
                  /\ showResults' /\ quizCompleted'
                  /\ Len(onCompleteCalls') = Len(onCompleteCalls) + 1
                  /\ IsRoundedPercent(onCompleteCalls'[Len(onCompleteCalls')],
                                      CorrectAmong(questions, selectedAnswers, n), n)
           /\ lastCall'.op # "nextQuestion" =>
                  Len(onCompleteCalls') <= Len(onCompleteCalls)
           /\ showResults => Len(onCompleteCalls') <= Len(onCompleteCalls)
           /\ Len(onCompleteCalls') <= 1]_vars

\* the last of three questions has just been finished
C8_Witness ==
    /\ lastCall.op = "nextQuestion"
    /\ showResults /\ quizCompleted
    /\ Len(questions) = 3 /\ currentQuestion = 2
    /\ Len(onCompleteCalls) = 1

LastReported(calls) == calls[Len(calls)]

\* C9: when the quiz of the selected topic finishes with score s, the
\* topic's record gets completed = (s >= 70); no other field of the record
\* and no other record changes.
C9_PassThreshold ==
    [][(lastCall'.op = "nextQuestion" /\ showResults') =>
          /\ selectedHook \in DOMAIN progress'
          /\ progress'[selectedHook].completed = (LastReported(onCompleteCalls') >= 70)
          /\ selectedHook \in DOMAIN progress =>
                 \A f \in (DOMAIN progress'[selectedHook]) \ {"completed"} :
                     progress'[selectedHook][f] = progress[selectedHook][f]
          /\ \A h \in (DOMAIN progress') \ {selectedHook} :
                 h \in DOMAIN progress /\ progress'[h] = progress[h]]_vars

\* a quiz finished with 67 leaves the topic not completed
C9_Witness ==
    /\ lastCall.op = "nextQuestion" /\ showResults
    /\ onCompleteCalls = <<67>>
    /\ selectedHook = "useState"
    /\ ~progress["useState"].completed

\* C10: a topic's completed flag is true exactly when, since the last
\* resetProgress, the learner marked the topic complete or finished its quiz
\* with a score of at least 70; it stays true through every other operation.
C10_CompletedIffEarned ==
    [][\A h \in Hooks :
          IsCompleted(progress', h) <=>
              IF lastCall'.op = "resetProgress" THEN FALSE
              ELSE \/ IsCompleted(progress, h)
                   \/ lastCall'.op = "markAsCompleted" /\ selectedHook = h
                   \/ /\ lastCall'.op = "nextQuestion" /\ showResults'
                      /\ selectedHook = h
                      /\ LastReported(onCompleteCalls') >= 70]_vars

----------------------------------------------------------------------------
(* Claims about the time spent on a topic *)

\* (progress[hookId]?.timeSpent || 0)
TimeSpentOf(p, h) == IF h \in DOMAIN p THEN p[h].timeSpent ELSE 0

\* C11: every step that closes the selected topic (a switch to another
\* topic, or leaving the learning view) leaves that topic with its previous
\* timeSpent plus the whole seconds since that topic was opened, the first
\* topic opened in the view included.
C11_CloseCreditsSession ==
    [][(lastCall'.op \in {"onHookSelect", "handleBackToDashboard"}
          /\ selectedHook # "") =>
          /\ selectedHook \in DOMAIN progress'
          /\ progress'[selectedHook].timeSpent =
                 TimeSpentOf(progress, selectedHook)
                     + ElapsedSeconds(sessionStartTime, now)]_vars

\* C12: the timeSpent of every record is an integer >= 0, and no step other
\* than resetProgress removes a record or lowers its timeSpent.
C12_TimeSpentMonotone ==
    /\ [](\A h \in DOMAIN progress : progress[h].timeSpent \in Nat)
    /\ [][lastCall'.op # "resetProgress" =>
            \A h \in DOMAIN progress :
                /\ h \in DOMAIN progress'
                /\ progress'[h].timeSpent >= progress[h].timeSpent]_vars

\* leaving the view has credited a second to a topic that is bookmarked
C12_Witness ==
    /\ lastCall.op = "handleBackToDashboard"
    /\ \E h \in DOMAIN progress :
           /\ lastCall.hookId = h
           /\ progress[h].timeSpent >= 1
           /\ progress[h].bookmarked

----------------------------------------------------------------------------
(* Claims about the figures of the dashboard and about reset and settings *)

CompletedCount(p) == Cardinality({h \in DOMAIN p : p[h].completed})

\* C13: getCompletionPercentage() is an integer in [0,100] for every map
\* reachable through updateProgress, records of ids outside the catalog
\* included.
C13_PercentageInRange ==
    phase = "running" => getCompletionPercentage(progress) \in 0..100

\* C14: while the map holds records of catalog topics only, k of them
\* completed, getCompletionPercentage() is round(100 * k / 16), halves up:
\* 0 for k = 0, 13 for k = 2, 25 for k = 4, and 100 exactly when all sixteen
\* topics are completed; records that are not completed and topics without
\* a record count for nothing.
C14_PercentageOfCatalog ==
    (phase = "running" /\ DOMAIN progress \subseteq CatalogIds) =>
        LET k == CompletedCount(progress)
            pct == getCompletionPercentage(progress)
        IN  /\ k \in 0..16
            /\ IsRoundedPercent(pct, k, 16)
            /\ (k = 0 => pct = 0) /\ (k = 2 => pct = 13) /\ (k = 4 => pct = 25)
            /\ pct = 100 <=> \A h \in CatalogIds : IsCompleted(progress, h)
            /\ pct = getCompletionPercentage(
                         [h \in {x \in DOMAIN progress : progress[x].completed}
                             |-> progress[h]])

\* four topics completed next to a record that is not completed
C14_Witness ==
    /\ phase = "running" /\ DOMAIN progress \subseteq CatalogIds
    /\ CompletedCount(progress) = 4
    /\ "useState" \in DOMAIN progress /\ ~progress["useState"].completed
    /\ getCompletionPercentage(progress) = 25

\* C15: resetProgress leaves the empty map, a total time of 0 and a
\* completion percentage of 0; a second resetProgress right after the first
\* changes neither the map nor the contents of storage.
C15_ResetIdempotent ==
    [][lastCall'.op = "resetProgress" =>
          /\ progress' = EmptyObject
          /\ getTotalTimeSpent(progress') = 0
          /\ getCompletionPercentage(progress') = 0
          /\ lastCall.op = "resetProgress" =>
                 progress' = progress /\ localStorage' = localStorage]_vars

\* a reset with autoSave on: the effect has written the empty map back
C15_Witness ==
    /\ lastCall.op = "resetProgress"
    /\ settings.autoSave
    /\ StoredProgress(localStorage) = JsonEntry(EmptyObject)
    /\ getTotalTimeSpent(progress) = 0

\* C16: resetProgress and updateProgress change neither the settings record
\* in memory nor the persisted settings entry.
C16_SettingsUntouched ==
    [][lastCall'.op \in {"resetProgress", "updateProgress"} =>
          /\ settings' = settings
          /\ StoredSettings(localStorage') = StoredSettings(localStorage)]_vars

\* a reset made with settings that are not the defaults
C16_Witness ==
    /\ lastCall.op = "resetProgress"
    /\ settings.theme = "dark" /\ ~settings.autoSave
    /\ StoredSettings(localStorage) = JsonEntry(settings)

SettingsWellFormed(s) ==
    /\ DOMAIN s = {"theme", "difficulty", "showHints", "autoSave", "soundEnabled"}
    /\ s.theme \in {"light", "dark", "auto"}
    /\ s.difficulty \in {"all", "beginner", "intermediate", "advanced"}
    /\ s.showHints \in BOOLEAN /\ s.autoSave \in BOOLEAN /\ s.soundEnabled \in BOOLEAN

\* C17: while the application runs the settings record has its five fields
\* with values of their types, and a start that finds no persisted settings
\* entry yields exactly light / all / hints on / autoSave on / sound off.
C17_SettingsAlwaysDefined ==
    /\ [](phase = "running" => SettingsWellFormed(settings))
    /\ [][(lastCall'.op \in {"startup", "reload"} /\ phase' = "running"
             /\ SettingsKey \notin DOMAIN localStorage) =>
            settings' = [theme |-> "light", difficulty |-> "all", showHints |-> TRUE,
                         autoSave |-> TRUE, soundEnabled |-> FALSE]]_vars

\* right after the first start, nothing updated yet
C17_Witness ==
    /\ lastCall.op = "startup" /\ phase = "running"
    /\ settings.theme = "light" /\ settings.autoSave
    /\ StoredSettings(localStorage) = JsonEntry(settings)

----------------------------------------------------------------------------
(* Claims about the sessions of the quiz *)

\* C18: opened for a list of no questions, the quiz raises no error and is
\* finished at once with a score of 0.
C18_EmptyListFinishes ==
    (quizMounted /\ showQuiz /\ Len(questions) = 0) =>
        /\ phase = "running"
        /\ showResults

\* C19: every opening of the quiz starts at question 0 with no selection
\* and not finished.
C19_FreshOnOpen ==
    [][lastCall'.op = "setShowQuiz" =>
          /\ currentQuestion' = 0
          /\ selectedAnswers' = EmptyObject
          /\ ~showResults']_vars

\* C20: for a list of n >= 1 questions the index stays within 0..n-1:
\* Previous lowers it by one and leaves 0 at 0, Next at n-1 finishes the
\* session and leaves the index where it is.
C20_IndexInRange ==
    /\ [](quizMounted =>
            /\ currentQuestion \in 0..(Len(questions) - 1)
            /\ previousQuestionIndex(0) = 0
            /\ previousQuestionIndex(currentQuestion) \in 0..(Len(questions) - 1))
    /\ [][(lastCall'.op = "previousQuestion" =>
               currentQuestion' = IF currentQuestion = 0 THEN 0
                                  ELSE currentQuestion - 1)
           /\
           ((lastCall'.op = "nextQuestion" /\ currentQuestion = Len(questions) - 1) =>
               (showResults' /\ currentQuestion' = currentQuestion))]_vars

\* the last of three questions, all three answered, finished
C20_Witness ==
    /\ quizMounted /\ showResults
    /\ Len(questions) = 3 /\ currentQuestion = 2
    /\ lastCall.op = "nextQuestion"
    /\ DOMAIN selectedAnswers = {0, 1, 2}

----------------------------------------------------------------------------
(* Claims about the handlers of the quiz *)

\* C21: Previous lowers the index by one when it is above 0 and otherwise
\* leaves it; it changes no selection, neither finished flag, and nothing of
\* the progress store or of storage.
C21_RetreatFrame ==
    /\ [](previousQuestionIndex(0) = 0)
    /\ [][lastCall'.op = "previousQuestion" =>
            /\ currentQuestion' =
                   IF currentQuestion > 0 THEN currentQuestion - 1 ELSE currentQuestion
            /\ selectedAnswers' = selectedAnswers
            /\ showResults' = showResults /\ quizCompleted' = quizCompleted
            /\ progress' = progress /\ localStorage' = localStorage]_vars

\* back at the first question of a topic's quiz, the two selections kept
C21_Witness ==
    /\ lastCall.op = "previousQuestion"
    /\ selectedHook = "useState" /\ "useState" \in DOMAIN progress
    /\ currentQuestion = 0
    /\ DOMAIN selectedAnswers = {0, 1}

\* C22: selecting an option stores it for the current question, over an
\* earlier selection if there is one; the selections of the other questions,
\* the index and the finished flag stay, and the score reported at the end
\* is the one of the selections held then.
C22_SelectOverwrites ==
    [][(lastCall'.op = "handleAnswerSelect" =>
           /\ DOMAIN selectedAnswers' = (DOMAIN selectedAnswers) \cup {currentQuestion}
           /\ selectedAnswers'[currentQuestion] = lastCall'.updates.answerIndex
           /\ \A i \in (DOMAIN selectedAnswers) \ {currentQuestion} :
                  selectedAnswers'[i] = selectedAnswers[i]
           /\ currentQuestion' = currentQuestion
           /\ showResults' = showResults /\ quizCompleted' = quizCompleted)
       /\
       ((lastCall'.op = "nextQuestion" /\ showResults') =>
           IsRoundedPercent(LastReported(onCompleteCalls'),
                            CorrectAmong(questions, selectedAnswers, Len(questions)),
                            Len(questions)))]_vars

\* the first question selected again, the wrong option over the correct one,
\* after the learner went on to the third question and came back
C22_Witness ==
    /\ lastCall.op = "handleAnswerSelect"
    /\ Len(questions) = 3 /\ currentQuestion = 0
    /\ DOMAIN selectedAnswers = {0, 1, 2}
    /\ selectedAnswers[0] = lastCall.updates.answerIndex
    /\ selectedAnswers[0] # questions[1]

\* C23: Retake puts the index at 0, clears every selection and both
\* finished flags, and changes nothing of the progress store or of storage;
\* the next finish reports the score of the selections made since.
C23_ResetClearsSession ==
    [][(lastCall'.op = "resetQuiz" =>
           /\ currentQuestion' = 0
           /\ selectedAnswers' = EmptyObject
           /\ ~showResults' /\ ~quizCompleted'
           /\ progress' = progress /\ localStorage' = localStorage)
       /\
       ((lastCall'.op = "nextQuestion" /\ showResults') =>
           LastReported(onCompleteCalls') =
               MathRoundPercent(
                   CorrectAmong(questions, selectedAnswers, Len(questions)),
                   Len(questions)))]_vars

\* a retake of a quiz that was passed: the topic is still completed
C23_Witness ==
    /\ lastCall.op = "resetQuiz"
    /\ selectedHook = "useState"
    /\ IsCompleted(progress, "useState")
    /\ selectedAnswers = EmptyObject /\ currentQuestion = 0

----------------------------------------------------------------------------
(* Claims about the records written from the learning view *)

\* progress[hookId]?.notes, "" where there is no record
NotesOf(p, h) == IF h \in DOMAIN p THEN p[h].notes ELSE ""

\* C24: a bookmark toggle sets bookmarked to the negation of its value
\* (false where there is no record) and keeps completed, timeSpent and notes
\* of the topic; a second toggle right after restores the value; marking
\* complete and finishing a quiz keep bookmarked.
C24_BookmarkIndependent ==
    [][(lastCall'.op = "toggleBookmark" =>
           /\ selectedHook \in DOMAIN progress'
           /\ progress'[selectedHook].bookmarked = ~IsBookmarked(progress, selectedHook)
           /\ progress'[selectedHook].completed = IsCompleted(progress, selectedHook)
           /\ progress'[selectedHook].timeSpent = TimeSpentOf(progress, selectedHook)
           /\ progress'[selectedHook].notes = NotesOf(progress, selectedHook)
           /\ (lastCall.op = "toggleBookmark" /\ lastCall.hookId = selectedHook) =>
                  progress'[selectedHook].bookmarked = ~lastCall.updates.bookmarked)
       /\
       ((lastCall'.op = "markAsCompleted"
            \/ (lastCall'.op = "nextQuestion" /\ showResults')) =>
           IsBookmarked(progress', selectedHook) = IsBookmarked(progress, selectedHook))]_vars

\* the bookmark of a completed topic with a second on its clock, set and
\* cleared again
C24_Witness ==
    /\ lastCall.op = "toggleBookmark"
    /\ lastCall.updates = [bookmarked |-> FALSE]
    /\ selectedHook \in DOMAIN progress
    /\ progress[selectedHook].completed
    /\ progress[selectedHook].timeSpent >= 1
    /\ ~progress[selectedHook].bookmarked

\* the fields of record h of p other than those in fs are as they were in q
SameExcept(p, q, h, fs) ==
    h \in DOMAIN q => \A f \in (DOMAIN q[h]) \ fs : p[h][f] = q[h][f]

\* C25: two updateProgress calls of one event are both in the map of the
\* next render: on a topic switch the timeSpent written for the topic closed
\* and the lastVisited written for the topic opened, and for two calls in a
\* row every field of the first that the second does not write again.
C25_NoLostUpdate ==
    [][(lastCall'.op = "onHookSelect" /\ cleanup.hook # "" /\ cleanup.start # NullTime) =>
           /\ cleanup.hook \in DOMAIN progress' /\ selectedHook' \in DOMAIN progress'
           /\ progress'[cleanup.hook].timeSpent =
                  cleanup.timeSpent + ElapsedSeconds(cleanup.start, now)
           /\ progress'[selectedHook'].lastVisited = MkDate(now)
           /\ SameExcept(progress', progress, cleanup.hook, {"timeSpent"})
           /\ SameExcept(progress', progress, selectedHook', {"lastVisited"})]_vars
    /\
    [][lastCall'.op = "updateProgressTwice" =>
           LET h1 == lastCall'.hookId
               u1 == lastCall'.updates
               h2 == lastCall'.second.hookId
               u2 == lastCall'.second.updates
           IN  /\ h1 \in DOMAIN progress' /\ h2 \in DOMAIN progress'
               /\ \A f \in DOMAIN u2 : progress'[h2][f] = u2[f]
               /\ \A f \in DOMAIN u1 :
                      (h1 = h2 /\ f \in DOMAIN u2) \/ progress'[h1][f] = u1[f]
               /\ SameExcept(progress', progress, h1,
                             (DOMAIN u1) \cup (IF h1 = h2 THEN DOMAIN u2 ELSE {}))
               /\ SameExcept(progress', progress, h2,
                             (DOMAIN u2) \cup (IF h1 = h2 THEN DOMAIN u1 ELSE {}))]_vars

\* a switch at the second tick has credited a second to the topic closed and
\* stamped the topic opened
C25_Witness ==
    /\ lastCall.op = "onHookSelect" /\ now = 2
    /\ selectedHook = "useState"
    /\ "useEffect" \in DOMAIN progress /\ "useState" \in DOMAIN progress
    /\ progress["useEffect"].timeSpent = 1
    /\ progress["useState"].lastVisited = MkDate(2)
    /\ progress["useEffect"].notes = "n"

\* C26: an updateSettings that switches autoSave from off to on writes the
\* in-memory progress map to storage with no updateProgress call, and while
\* autoSave stays on the persisted progress entry is the serialized
\* in-memory map; an updateSettings that leaves autoSave as it was does not
\* write the progress entry.
C26_ReenableFlushes ==
    [](phase = "running" /\ settings.autoSave =>
          StoredProgress(localStorage) = JsonEntry(StringifyProgress(progress)))
    /\
    [][lastCall'.op = "updateSettings" =>
          /\ progress' = progress
          /\ (~settings.autoSave /\ settings'.autoSave) =>
                 StoredProgress(localStorage') = JsonEntry(StringifyProgress(progress))
          /\ settings'.autoSave = settings.autoSave =>
                 StoredProgress(localStorage') = StoredProgress(localStorage)]_vars

\* autoSave has just been switched back on over a map that was changed
\* while it was off
C26_Witness ==
    /\ lastCall.op = "updateSettings"
    /\ lastCall.updates = [autoSave |-> TRUE]
    /\ settings.autoSave
    /\ "useState" \in DOMAIN written
    /\ progress # EmptyObject
    /\ StoredProgress(localStorage) = JsonEntry(StringifyProgress(progress))

\* C27: the timeSpent a teardown writes for the topic it closes is the
\* timeSpent the progress map holds for that topic at the teardown plus the
\* seconds the teardown counts; after a resetProgress made while the topic
\* was open the map holds none, so only the counted seconds are written.
C27_ResetNotUndone ==
    [][(lastCall'.op \in {"onHookSelect", "handleBackToDashboard"}
          /\ cleanup.hook # "" /\ cleanup.start # NullTime) =>
          /\ cleanup.hook \in DOMAIN progress'
          /\ progress'[cleanup.hook].timeSpent =
                 TimeSpentOf(progress, cleanup.hook)
                     + ElapsedSeconds(cleanup.start, now)]_vars

\* C28: a step that closes the selected topic, with the progress map as the
\* topic's session captured it, adds to that topic and to getTotalTimeSpent()
\* at most the whole seconds since the topic became the selected one, so no
\* interval of the stay is credited twice or to a topic that was not
\* selected during it.
C28_NoIntervalTwice ==
    [][(lastCall'.op \in {"onHookSelect", "handleBackToDashboard"}
          /\ selectedHook # ""
          /\ cleanup.timeSpent = TimeSpentOf(progress, selectedHook)) =>
          /\ TimeSpentOf(progress', selectedHook) - TimeSpentOf(progress, selectedHook)
                 <= ElapsedSeconds(sessionStartTime, now)
          /\ getTotalTimeSpent(progress') - getTotalTimeSpent(progress)
                 <= ElapsedSeconds(sessionStartTime, now)]_vars

----------------------------------------------------------------------------
(* Claims about the states of the quiz and the shipped quizzes *)

\* C29: in every state of the quiz every question below the current index
\* has a selection, and a finished session has a selection for every
\* question.
C29_AnsweredBelowIndex ==
    quizMounted =>
        /\ \A i \in 0..(currentQuestion - 1) : i \in DOMAIN selectedAnswers
        /\ showResults =>
               \A i \in 0..(Len(questions) - 1) : i \in DOMAIN selectedAnswers

\* the learner went back from the third question to the second, the third
\* not answered yet
C29_Witness ==
    /\ quizMounted /\ ~showResults
    /\ Len(questions) = 3 /\ currentQuestion = 1
    /\ lastCall.op = "previousQuestion"
    /\ DOMAIN selectedAnswers = {0, 1}

\* C30: every shipped quiz has three questions; a quiz completion reports
\* 0, 33, 67 or 100, and sets completed of the selected topic to TRUE when
\* all three selections are correct and to FALSE otherwise, two of three
\* (67) included.
C30_ShippedQuizzes ==
    [](\A h \in DOMAIN Quizzes : Len(Quizzes[h]) = 3)
    /\
    [][(lastCall'.op = "nextQuestion" /\ showResults') =>
          LET correct == CorrectAmong(questions, selectedAnswers, Len(questions))
              score == LastReported(onCompleteCalls')
          IN  /\ score \in {0, 33, 67, 100}
              /\ selectedHook \in DOMAIN progress'
              /\ progress'[selectedHook].completed = (correct = 3)
              /\ correct = 2 =>
                     (score = 67 /\ ~progress'[selectedHook].completed)]_vars

\* the quiz of useTransition finished with two of three correct, the third
\* selection being the fourth option
C30_Witness ==
    /\ lastCall.op = "nextQuestion" /\ showResults
    /\ selectedHook = "useTransition"
    /\ questions = <<1, 2, 2>>
    /\ selectedAnswers = (0 :> 1 @@ 1 :> 2 @@ 2 :> 3)
    /\ onCompleteCalls = <<67>>
    /\ ~progress["useTransition"].completed

====
